---- MODULE Spec2Model ----
\* The _quickjs extension module (src/module.c): the Context type (a session:
\* one JSRuntime and one JSContext), the Object type (a handle on a JS object)
\* and quickjs_to_python, the conversion of an engine value to a host value.
\* The QuickJS engine itself is outside the repository; it is modelled at its
\* interface (reference-counted cells, a pending-exception slot, one global).
EXTENDS Integers, Sequences, FiniteSets, TLC

\* ---------------------------------------------------------------- bounds
MaxSessions == 2
MaxHandles == 2
MaxArgs == 2
\* Cells of one engine heap: what the handles can retain plus what one call
\* holds transiently (its string arguments, an exception and its string form).
MaxCells == MaxHandles + MaxArgs + 2

Sessions == 1..MaxSessions
Handles == 1..MaxHandles
Cells == 1..MaxCells

VARIABLES
    proc,   \* "running" (host code), "returned" (a handler has just returned),
            \* or "crashed" once undefined behaviour ended the process
    sess,   \* ContextData objects: host object state, runtime, context, engine state
    hnd,    \* ObjectData objects: host object state, context (0 = NULL), object
    last    \* what the last operation did (ghost record of its observable steps)

vars == <<proc, sess, hnd, last>>

\* ------------------------------------------------------- engine values
\* A JSValue is [tag, v]; for the reference-counted tags v is the cell.
JSVal(tag, v) == [tag |-> tag, v |-> v]
JS_NULL == JSVal("null", 0)
JS_UNDEFINED == JSVal("undefined", 0)
JS_EXCEPTION == JSVal("exception", 0)
\* An element of the jsargs array that was never written (malloc'ed memory).
Garbage == JSVal("garbage", 0)

\* JS_VALUE_HAS_REF_COUNT: strings, objects and symbols live in the heap.
HasRefCount(val) == val.tag \in {"string", "object", "symbol"}

FreeCell == [kind |-> "free", rc |-> 0, v |-> 0]
\* The engine state of a fresh Context: empty heap, no pending exception,
\* global x unbound (0).
EmptyJS == [heap |-> [i \in Cells |-> FreeCell], pending |-> 0, x |-> 0]

IsFree(c, i) == c.heap[i].kind = "free" /\ c.heap[i].rc = 0
NumFree(c) == Cardinality({i \in Cells : IsFree(c, i)})
NewCell(c) == CHOOSE i \in Cells : IsFree(c, i) /\ \A j \in 1..(i - 1) : ~IsFree(c, j)

TagOfKind(kind) ==
    IF kind = "string" THEN "string"
    ELSE IF kind = "symbol" THEN "symbol"
    ELSE "object"

\* Engine allocation: a new cell owned by the caller (reference count 1).
Alloc(c, kind, v) ==
    LET i == NewCell(c) IN
    [c |-> [c EXCEPT !.heap[i] = [kind |-> kind, rc |-> 1, v |-> v]],
     val |-> JSVal(TagOfKind(kind), i)]

\* JS_DupValue / JS_FreeValue: no effect on a value without reference count.
JS_DupValue(c, val) ==
    IF HasRefCount(val) THEN [c EXCEPT !.heap[val.v].rc = @ + 1] ELSE c

JS_FreeValue(c, val) ==
    IF HasRefCount(val)
    THEN IF c.heap[val.v].rc = 1
         THEN [c EXCEPT !.heap[val.v] = FreeCell]
         ELSE [c EXCEPT !.heap[val.v].rc = @ - 1]
    ELSE c

\* JS_NewString: the engine allocates a string holding the text s.
JS_NewString(c, s) == Alloc(c, "string", s)

\* JS_Throw inside the engine: an Error object becomes the pending exception.
Throw(c, msg) ==
    LET a == Alloc(c, "error", msg) IN
    [c |-> [a.c EXCEPT !.pending = a.val.v], val |-> JS_EXCEPTION]

\* JS_GetException: hands the pending exception to the caller and clears it.
JS_GetException(c) ==
    IF c.pending = 0
    THEN [c |-> c, val |-> JS_NULL]
    ELSE [c |-> [c EXCEPT !.pending = 0], val |-> JSVal("object", c.pending)]

\* JS_ToString of an Error object: a new string with its message.
JS_ToString(c, val) ==
    IF val.tag = "object" THEN Alloc(c, "string", c.heap[val.v].v)
    ELSE IF val.tag = "string" THEN [c |-> JS_DupValue(c, val), val |-> val]
    ELSE Alloc(c, "string", 0)

\* The text JS_ToCString yields for a string value.
JS_ToCString(c, val) == IF val.tag = "string" THEN c.heap[val.v].v ELSE 0

\* ------------------------------------------------- the engine, at its interface
\* Programs handed to JS_Eval: literals of every tag the bridge converts, the
\* function and object expressions whose value is an object, Symbol() (a tag
\* the bridge does not know), a throw, and a write and a read of the global x.
FunctionKinds == {"fn_id", "fn_argc", "fn_throw", "fn_self"}
\* Functions over the global x: fn_getx returns it, fn_setx assigns its first
\* argument to it.
GlobalFunctionKinds == {"fn_getx", "fn_setx"}
Program(k, v) == [k |-> k, v |-> v]
Programs ==
    {Program("int", 1), Program("float", 314), Program("bool", 1),
     Program("null", 0), Program("undefined", 0), Program("string", 1),
     Program("symbol", 0), Program("throw", 1),
     Program("setx", 1), Program("getx", 0)}
    \cup {Program(k, 0) : k \in FunctionKinds}

\* JS_Eval(ctx, code, ..., JS_EVAL_TYPE_GLOBAL): runs the program in the global
\* scope and returns a value the caller owns, or JS_EXCEPTION with the
\* exception pending. Reading the unbound x throws a ReferenceError (message 2).
JS_Eval(c, prog) ==
    IF prog.k = "int" THEN [c |-> c, val |-> JSVal("int", prog.v)]
    ELSE IF prog.k = "float" THEN [c |-> c, val |-> JSVal("float64", prog.v)]
    ELSE IF prog.k = "bool" THEN [c |-> c, val |-> JSVal("bool", prog.v)]
    ELSE IF prog.k = "null" THEN [c |-> c, val |-> JS_NULL]
    ELSE IF prog.k = "undefined" THEN [c |-> c, val |-> JS_UNDEFINED]
    ELSE IF prog.k = "string" THEN JS_NewString(c, prog.v)
    ELSE IF prog.k = "throw" THEN Throw(c, prog.v)
    ELSE IF prog.k = "setx" THEN [c |-> [c EXCEPT !.x = prog.v], val |-> JSVal("int", prog.v)]
    ELSE IF prog.k = "getx"
         THEN IF c.x = 0 THEN Throw(c, 2) ELSE [c |-> c, val |-> JSVal("int", c.x)]
    ELSE Alloc(c, prog.k, 0)

\* What the engine sees of an argument array of nargs written elements when it
\* is told the array holds argc of them.
EngineArgv(jsargs, argc) ==
    [i \in 1..argc |-> IF i <= Len(jsargs) THEN jsargs[i] ELSE Garbage]

\* JS_Call(ctx, func, this, argc, argv): the arguments are borrowed, the result
\* is owned by the caller. fn_id returns its first argument, fn_argc the
\* number of arguments, fn_self the function itself, fn_throw throws (message
\* 1); calling what is not a function throws a TypeError (message 3). Reading
\* an argument slot that was never written is undefined: ub picks the outcome.
JS_Call(c, func, thisv, argc, argv, ub) ==
    LET kind == c.heap[func.v].kind IN
    IF kind = "fn_id"
    THEN IF argc = 0 THEN [c |-> c, val |-> JS_UNDEFINED, crash |-> FALSE]
         ELSE IF argv[1] = Garbage
              THEN [c |-> c, val |-> JSVal("int", 0), crash |-> ub = "crash"]
              ELSE [c |-> JS_DupValue(c, argv[1]), val |-> argv[1], crash |-> FALSE]
    ELSE IF kind = "fn_argc" THEN [c |-> c, val |-> JSVal("int", argc), crash |-> FALSE]
    ELSE IF kind = "fn_self"
         THEN [c |-> JS_DupValue(c, func), val |-> func, crash |-> FALSE]
    ELSE IF kind = "fn_throw"
         THEN [c |-> Throw(c, 1).c, val |-> JS_EXCEPTION, crash |-> FALSE]
    ELSE IF kind = "fn_getx"
         THEN IF c.x = 0
              THEN [c |-> Throw(c, 2).c, val |-> JS_EXCEPTION, crash |-> FALSE]
              ELSE [c |-> c, val |-> JSVal("int", c.x), crash |-> FALSE]
    ELSE IF kind = "fn_setx"
         THEN IF argc = 0 THEN [c |-> c, val |-> JS_UNDEFINED, crash |-> FALSE]
              ELSE IF argv[1] = Garbage
              THEN [c |-> c, val |-> JSVal("int", 0), crash |-> ub = "crash"]
              ELSE IF argv[1].tag = "int"
              THEN [c |-> [c EXCEPT !.x = argv[1].v], val |-> argv[1], crash |-> FALSE]
              ELSE [c |-> c, val |-> JS_UNDEFINED, crash |-> FALSE]
    ELSE [c |-> Throw(c, 3).c, val |-> JS_EXCEPTION, crash |-> FALSE]

\* ------------------------------------------------------------ host values
\* A host value or a raised host exception: [type, v].
HV(type, v) == [type |-> type, v |-> v]
Py_None == HV("none", 0)
IsRaise(res) ==
    res.type \in {"JSException", "ValueError", "TypeError", "MemoryError", "SystemError"}

\* The exception types the bridge raises with.
JSExceptionKind == "JSException"
UnsupportedTypeKind == "ValueError"
\* A faulty variant: the unknown tag raised as a JSException.
UnknownTagAsJSException == "JSException"
UnknownTagKind == "ValueError"

\* ------------------------------------------------------ quickjs_to_python
\* A faulty variant of TranslateException: the exception is not released.
TranslateExceptionLeak(c) ==
    LET g == JS_GetException(c)
        s == JS_ToString(g.c, g.val)
        text == JS_ToCString(s.c, s.val)
        c1 == JS_FreeValue(s.c, s.val)
    IN [c |-> c1, res |-> HV(JSExceptionKind, text), exc |-> g.val.v, str |-> s.val.v]

\* The JS_TAG_EXCEPTION branch: fetch the pending exception, stringify it,
\* raise JSException with the text, release the string form and the exception.
TranslateException(c) ==
    LET g == JS_GetException(c)
        s == JS_ToString(g.c, g.val)
        text == JS_ToCString(s.c, s.val)
        c1 == JS_FreeValue(s.c, s.val)
        c2 == JS_FreeValue(c1, g.val)
    IN [c |-> c2, res |-> HV(JSExceptionKind, text), exc |-> g.val.v, str |-> s.val.v]

\* A faulty variant: a boolean built as a host integer.
ScalarToHostBoolAsInt(c, value) ==
    LET tag == value.tag IN
    IF tag \in {"int", "bool"} THEN HV("int", value.v)
    ELSE IF tag \in {"null", "undefined", "uninitialized"} THEN Py_None
    ELSE IF tag = "float64" THEN HV("float", value.v)
    ELSE IF tag = "string" THEN HV("str", JS_ToCString(c, value))
    ELSE HV("ValueError", 2)

\* The branches that build a host value from a value that is then released.
ScalarToHost(c, value) ==
    LET tag == value.tag IN
    IF tag = "int" THEN HV("int", value.v)
    ELSE IF tag = "bool" THEN HV("bool", IF value.v # 0 THEN 1 ELSE 0)
    ELSE IF tag = "null" THEN Py_None
    ELSE IF tag = "undefined" THEN Py_None
    ELSE IF tag = "uninitialized" THEN Py_None
    ELSE IF tag = "float64" THEN HV("float", value.v)
    ELSE IF tag = "string" THEN HV("str", JS_ToCString(c, value))
    ELSE HV(UnknownTagKind, 2)

\* A faulty variant: the converted value is not released.
ReleaseConvertedLeak(c, value) == c

\* The release at the end of quickjs_to_python.
ReleaseConverted(c, value) == JS_FreeValue(c, value)

\* quickjs_to_python: [c: the engine state after, res: the host result, tag:
\* the tag dispatched on, capture: the cell a new Object retains (0: none),
\* exc/str: the cells of the exception fetched and of its string form].
quickjs_to_python(c, value) ==
    IF value.tag = "exception"
    THEN LET t == TranslateException(c) IN
         [c |-> ReleaseConverted(t.c, value), res |-> t.res, tag |-> value.tag,
          capture |-> 0, exc |-> t.exc, str |-> t.str]
    ELSE IF value.tag = "object"
    THEN [c |-> c, res |-> HV("handle", 0), tag |-> value.tag, capture |-> value.v,
          exc |-> 0, str |-> 0]
    ELSE [c |-> ReleaseConverted(c, value), res |-> ScalarToHost(c, value),
          tag |-> value.tag, capture |-> 0, exc |-> 0, str |-> 0]

\* ------------------------------------------------------------ object_call
\* Host arguments the host may pass: an integer, a string, a float, the
\* boolean True, None and an Object.
HostArgs ==
    {HV("int", 1), HV("str", 1), HV("float", 314), HV("bool", 1), Py_None,
     HV("handle", 0)}
ArgSeqs == UNION {[1..n -> HostArgs] : n \in 0..MaxArgs}

\* A host integer is unbounded. It is written in words of 32 bits: HV("int", v)
\* is the integer v of the int32 range, HV("long", v) is 2^32 + v, which a
\* 64-bit C long holds and an int32 does not, and HV("huge", v) is 2^64 + v,
\* which a C long does not hold.
IntTypes == {"int", "long", "huge"}
BigHostArgs == {HV("int", 1), HV("long", 1), HV("huge", 1), HV("str", 1)}
BigArgSeqs == UNION {[1..n -> BigHostArgs] : n \in 0..MaxArgs}

\* PyLong_Check holds of int and of its subtype bool; PyUnicode_Check of str.
PyLong_Check(item) == item.type \in IntTypes \cup {"bool"}
PyUnicode_Check(item) == item.type = "str"
\* PyLong_AsLong: the integer as a C long (True is 1), given by its high and
\* its low 32-bit word; for an integer a long does not hold, -1 with an
\* OverflowError set in the host (err).
PyLong_AsLong(item) ==
    IF item.type = "huge" THEN [hi |-> -1, lo |-> -1, err |-> TRUE]
    ELSE IF item.type = "long" THEN [hi |-> 1, lo |-> item.v, err |-> FALSE]
    ELSE [hi |-> IF item.v < 0 THEN -1 ELSE 0, lo |-> item.v, err |-> FALSE]

\* JS_MKVAL(JS_TAG_INT, n): the long is stored in the 32-bit int32 field of
\* the value, which keeps its low word.
JS_MKVAL_INT(n) == JSVal("int", n.lo)

\* The type check of the first loop: an item passes when it is an int or a str.
ArgAccepted(item) == PyLong_Check(item) \/ PyUnicode_Check(item)

\* The second loop: jsargs[1..i] built from args[1..i], left to right. For a
\* str the buffer PyUnicode_AsUTF8 lends (it belongs to the str object) is
\* handed to PyMem_Free: hostfreed counts these buffers.
RECURSIVE ConvertArgs(_, _, _)
ConvertArgs(c, args, i) ==
    IF i = 0 THEN [c |-> c, jsargs |-> <<>>, nconv |-> 0, hostfreed |-> 0]
    ELSE LET p == ConvertArgs(c, args, i - 1)
             item == args[i]
         IN IF PyLong_Check(item)
            THEN [c |-> p.c, nconv |-> p.nconv + 1, hostfreed |-> p.hostfreed,
                  jsargs |-> Append(p.jsargs, JS_MKVAL_INT(PyLong_AsLong(item)))]
            ELSE IF PyUnicode_Check(item)
            THEN LET a == JS_NewString(p.c, item.v) IN
                 [c |-> a.c, nconv |-> p.nconv + 1, hostfreed |-> p.hostfreed + 1,
                  jsargs |-> Append(p.jsargs, a.val)]
            ELSE [c |-> p.c, nconv |-> p.nconv, hostfreed |-> p.hostfreed,
                  jsargs |-> Append(p.jsargs, Garbage)]

\* A faulty variant: one loop that converts each item as soon as it has
\* passed the check, so the items before a rejected one are already built.
MarshalArgsOnePass(c, args) ==
    LET bad == {i \in 1..Len(args) : ~ArgAccepted(args[i])} IN
    IF bad = {}
    THEN [ok |-> TRUE] @@ ConvertArgs(c, args, Len(args))
    ELSE LET k == CHOOSE i \in bad : \A j \in bad : i <= j
             p == ConvertArgs(c, args, k - 1)
         IN [ok |-> FALSE, c |-> p.c, jsargs |-> <<>>, nconv |-> p.nconv,
             hostfreed |-> p.hostfreed]

\* Both loops: [ok: every item passed the check, c, jsargs, nconv: the number
\* of JS values constructed]. The check of every item comes before the first
\* conversion.
MarshalArgs(c, args) ==
    IF \A i \in 1..Len(args) : ArgAccepted(args[i])
    THEN [ok |-> TRUE] @@ ConvertArgs(c, args, Len(args))
    ELSE [ok |-> FALSE, c |-> c, jsargs |-> <<>>, nconv |-> 0, hostfreed |-> 0]

\* The argument count object_call hands to JS_Call.
CallArgc(nargs) == 1

\* A faulty variant: only the argument the engine was handed is released.
FreeArgsFirstOnly(c, jsargs, i) ==
    IF i = 0 THEN c ELSE JS_FreeValue(c, jsargs[1])

\* The loop releasing jsargs[1..i].
RECURSIVE FreeArgs(_, _, _)
FreeArgs(c, jsargs, i) ==
    IF i = 0 THEN c ELSE JS_FreeValue(FreeArgs(c, jsargs, i - 1), jsargs[i])

\* What the engine can observe of a value: a string by its text.
Seen(c, val) == IF val.tag = "string" THEN JSVal("string", c.heap[val.v].v) ELSE val

\* object_call on a handle whose context is a live Context with engine state
\* c: the result of quickjs_to_python extended with what the call did. Freeing
\* a buffer the str object owns is undefined, like the read of an unwritten
\* argument slot: ub picks whether the process dies of it. hosterr: the
\* OverflowError a PyLong_AsLong has set is still pending, the call having
\* gone on without looking at it.
object_call(c, func, args, ub) ==
    LET m == MarshalArgs(c, args) IN
    IF ~m.ok
    THEN [c |-> m.c, res |-> HV(UnsupportedTypeKind, 1), tag |-> "none", capture |-> 0,
          exc |-> 0, str |-> 0, called |-> FALSE, argc |-> 0, argv |-> <<>>, thisv |-> "none",
          nconv |-> m.nconv, hostfreed |-> m.hostfreed, nfreed |-> 0, crash |-> FALSE,
          hosterr |-> FALSE]
    ELSE LET nargs == Len(args)
             argc == CallArgc(nargs)
             argv == EngineArgv(m.jsargs, argc)
             r == JS_Call(m.c, func, JS_NULL, argc, argv, ub)
             c1 == FreeArgs(r.c, m.jsargs, nargs)
             t == quickjs_to_python(c1, r.val)
         IN t @@ [called |-> TRUE, argc |-> argc,
                  argv |-> [i \in 1..argc |-> Seen(m.c, argv[i])],
                  thisv |-> JS_NULL.tag, nconv |-> m.nconv,
                  hostfreed |-> m.hostfreed, nfreed |-> nargs,
                  crash |-> r.crash \/ (m.hostfreed > 0 /\ ub = "crash"),
                  hosterr |-> \E i \in 1..nargs :
                                 PyLong_Check(args[i]) /\ PyLong_AsLong(args[i]).err]

\* ------------------------------------------------------------ state machine
\* The outcomes of undefined behaviour (a call into a freed or NULL context or
\* runtime, a read of an unwritten argument slot): the process dies, or the
\* call comes back with None or with some integer.
UBOutcomes == {"crash", "none", "int"}
UBResult(ub) == IF ub = "int" THEN HV("int", 0) ELSE Py_None

UnbornSession == [st |-> "unborn", runtime |-> "null", context |-> "null", js |-> EmptyJS]
UnbornHandle == [st |-> "unborn", context |-> 0, object |-> 0]

NoOp ==
    [op |-> "init", s |-> 0, h |-> 0, args |-> <<>>, res |-> HV("void", 0),
     called |-> FALSE, argc |-> 0, argv |-> <<>>, thisv |-> "none", nconv |-> 0,
     hostfreed |-> 0, nfreed |-> 0, bad |-> FALSE, tag |-> "none", exc |-> 0,
     str |-> 0, rel |-> 0, freed |-> <<>>, src |-> Program("none", 0)]
Did(op, s, h) == [NoOp EXCEPT !.op = op, !.s = s, !.h = h]

Init ==
    /\ proc = "running"
    /\ sess = [s \in Sessions |-> UnbornSession]
    /\ hnd = [h \in Handles |-> UnbornHandle]
    /\ last = NoOp

\* Host objects are numbered in the order of their allocation.
NextSession(s) == sess[s].st = "unborn" /\ \A t \in 1..(s - 1) : sess[t].st # "unborn"
NextHandle(h) == hnd[h].st = "unborn" /\ \A g \in 1..(h - 1) : hnd[g].st # "unborn"
HasUnbornHandle == \E h \in Handles : hnd[h].st = "unborn"
TheNextHandle == CHOOSE h \in Handles : NextHandle(h)

\* quickjs_to_python's JS_TAG_OBJECT branch: a new Object whose context is
\* the session's context and whose object is the value.
WithCapture(s, capture) ==
    IF capture = 0 THEN hnd
    ELSE [hnd EXCEPT ![TheNextHandle] = [st |-> "live", context |-> s, object |-> capture]]

\* context_new: tp_alloc, JS_NewRuntime, JS_NewContext; the object is returned
\* whenever tp_alloc succeeded. JS_NewContext(NULL) is undefined.
ContextNew(s, hostOk, rtOk, ctxOk) ==
    /\ proc = "running"
    /\ NextSession(s)
    /\ IF ~hostOk
       THEN /\ last' = [Did("context_new", 0, 0) EXCEPT !.res = HV("MemoryError", 0)]
            /\ proc' = "returned" /\ UNCHANGED <<sess, hnd>>
       ELSE \E ub \in (IF rtOk THEN {"none"} ELSE UBOutcomes) :
            IF ub = "crash"
            THEN /\ proc' = "crashed"
                 /\ last' = [Did("context_new", s, 0) EXCEPT !.res = HV("crash", 0),
                                                             !.bad = TRUE]
                 /\ UNCHANGED <<sess, hnd>>
            ELSE /\ sess' = [sess EXCEPT ![s] =
                                [st |-> "live",
                                 runtime |-> IF rtOk THEN "live" ELSE "null",
                                 context |-> IF rtOk /\ ctxOk THEN "live" ELSE "null",
                                 js |-> EmptyJS]]
                 /\ last' = [Did("context_new", s, 0) EXCEPT !.res = HV("session", s),
                                                             !.bad = ~rtOk]
                 /\ proc' = "returned" /\ UNCHANGED hnd

\* A faulty variant: the Runtime is released first.
DeallocOrderSwapped == <<"runtime", "context">>
\* The releases of context_dealloc in the order of its statements.
DeallocOrder == <<"context", "runtime">>

\* One release applied to r = [runtime, context, uaf]. JS_FreeContext works
\* in the Context and in its Runtime, so both must be live; JS_FreeRuntime
\* needs a live Runtime none of whose Contexts is still live. uaf records a
\* release whose needs were not met.
ReleaseStep(r, what) ==
    IF what = "context"
    THEN [r EXCEPT !.context = IF @ = "live" THEN "freed" ELSE @,
                   !.uaf = @ \/ r.context # "live" \/ r.runtime # "live"]
    ELSE [r EXCEPT !.runtime = IF @ = "live" THEN "freed" ELSE @,
                   !.uaf = @ \/ r.runtime # "live" \/ r.context = "live"]

\* The releases of context_dealloc applied to a session record.
context_dealloc(r) ==
    ReleaseStep(ReleaseStep([runtime |-> r.runtime, context |-> r.context, uaf |-> FALSE],
                            DeallocOrder[1]), DeallocOrder[2])

\* context_dealloc: JS_FreeContext, then JS_FreeRuntime, then tp_free. Either
\* call on NULL is undefined. The handles made from this session are not
\* touched: their context field keeps pointing at the freed Context.
ContextDealloc(s) ==
    /\ proc = "running"
    /\ sess[s].st = "live"
    /\ LET d == context_dealloc(sess[s])
           bad == d.uaf IN
       \E ub \in (IF bad THEN UBOutcomes ELSE {"none"}) :
       IF ub = "crash"
       THEN /\ proc' = "crashed"
            /\ last' = [Did("context_dealloc", s, 0) EXCEPT !.res = HV("crash", 0),
                                                            !.bad = TRUE]
            /\ UNCHANGED <<sess, hnd>>
       ELSE /\ sess' = [sess EXCEPT ![s] =
                           [st |-> "dead", runtime |-> d.runtime, context |-> d.context,
                            js |-> EmptyJS]]
            /\ last' = [Did("context_dealloc", s, 0) EXCEPT
                           !.bad = bad, !.freed = DeallocOrder]
            /\ proc' = "returned" /\ UNCHANGED hnd

\* The ghost record of an operation that went through quickjs_to_python.
Converted(did, t) ==
    [f \in DOMAIN did |-> IF f \in DOMAIN t THEN t[f] ELSE did[f]]

\* A faulty variant: the program runs in a context whose globals are reset.
context_eval_fresh(c, src) ==
    LET e == JS_Eval([c EXCEPT !.x = 0], src) IN quickjs_to_python(e.c, e.val)

\* context_eval on a live Context with engine state c: JS_Eval in
\* self->context, then quickjs_to_python in the same context.
context_eval(c, src) ==
    LET e == JS_Eval(c, src) IN quickjs_to_python(e.c, e.val)

\* A faulty variant: one engine state shared by every live session.
WithEngineStateShared(s, c) ==
    [t \in Sessions |-> IF sess[t].context = "live" THEN [sess[t] EXCEPT !.js = c]
                        ELSE sess[t]]

\* The engine state a handler leaves: it worked in self->context, the
\* Context of its own session (or of its handle's session), and no other.
WithEngineState(s, c) == [sess EXCEPT ![s].js = c]

\* context_eval: PyArg_ParseTuple "s", JS_Eval, quickjs_to_python.
NotAString == Program("notastring", 0)
ContextEval(s, src) ==
    /\ proc = "running"
    /\ sess[s].st = "live"
    /\ IF src = NotAString
       THEN /\ last' = [Did("context_eval", s, 0) EXCEPT !.res = HV("TypeError", 0),
                                                         !.src = src]
            /\ proc' = "returned" /\ UNCHANGED <<sess, hnd>>
       ELSE IF sess[s].context # "live"
       THEN \E ub \in UBOutcomes :
            /\ proc' = IF ub = "crash" THEN "crashed" ELSE "returned"
            /\ last' = [Did("context_eval", s, 0) EXCEPT
                           !.res = IF ub = "crash" THEN HV("crash", 0) ELSE UBResult(ub),
                           !.called = TRUE, !.bad = TRUE, !.src = src]
            /\ UNCHANGED <<sess, hnd>>
       ELSE /\ NumFree(sess[s].js) >= MaxArgs + 2
            /\ LET t == context_eval(sess[s].js, src)
               IN /\ t.capture # 0 => HasUnbornHandle
                  /\ sess' = WithEngineState(s, t.c)
                  /\ hnd' = WithCapture(s, t.capture)
                  /\ last' = Converted([Did("context_eval", s,
                                            IF t.capture = 0 THEN 0 ELSE TheNextHandle)
                                           EXCEPT !.called = TRUE, !.src = src], t)
            /\ proc' = "returned"

\* object_new called by the host: an Object with no context.
ObjectNew(h) ==
    /\ proc = "running"
    /\ NextHandle(h)
    /\ hnd' = [hnd EXCEPT ![h] = [st |-> "live", context |-> 0, object |-> 0]]
    /\ last' = [Did("object_new", 0, h) EXCEPT !.res = HV("handle", 0)]
    /\ proc' = "returned" /\ UNCHANGED sess

\* tp_call of an Object. The context field is compared with NULL and nothing
\* else: a field that points at a freed Context is used as it is.
ObjectCall(h, args) ==
    /\ proc = "running"
    /\ hnd[h].st = "live"
    /\ LET s == hnd[h].context
           did == [Did("object_call", s, h) EXCEPT !.args = args]
       IN
       IF s = 0
       THEN /\ last' = [did EXCEPT !.res = Py_None]
            /\ proc' = "returned" /\ UNCHANGED <<sess, hnd>>
       ELSE IF sess[s].context # "live"
       THEN IF \A i \in 1..Len(args) : ArgAccepted(args[i])
            THEN \E ub \in UBOutcomes :
                 /\ proc' = IF ub = "crash" THEN "crashed" ELSE "returned"
                 /\ last' = [did EXCEPT
                                !.res = IF ub = "crash" THEN HV("crash", 0) ELSE UBResult(ub),
                                !.called = TRUE, !.argc = CallArgc(Len(args)),
                                !.thisv = JS_NULL.tag, !.nconv = Len(args),
                                !.bad = TRUE]
                 /\ UNCHANGED <<sess, hnd>>
            ELSE /\ last' = [did EXCEPT !.res = HV(UnsupportedTypeKind, 1)]
                 /\ proc' = "returned" /\ UNCHANGED <<sess, hnd>>
       ELSE /\ NumFree(sess[s].js) >= MaxArgs + 2
            /\ \E ub \in (IF \/ Len(args) < CallArgc(Len(args))
                               \/ \E i \in 1..Len(args) : PyUnicode_Check(args[i])
                            THEN UBOutcomes ELSE {"none"}) :
               LET t == object_call(sess[s].js, JSVal("object", hnd[h].object), args, ub) IN
               IF t.crash
               THEN /\ proc' = "crashed"
                    /\ last' = [did EXCEPT !.res = HV("crash", 0), !.called = t.called,
                                           !.argc = t.argc, !.argv = t.argv,
                                           !.thisv = t.thisv, !.nconv = t.nconv,
                                           !.hostfreed = t.hostfreed]
                    /\ UNCHANGED <<sess, hnd>>
               ELSE IF t.hosterr /\ ~IsRaise(t.res)
               THEN \* A result returned with an error pending: the host drops
                    \* the result (a new Object is reclaimed at once, which
                    \* releases its value) and raises SystemError.
                    /\ t.capture # 0 => HasUnbornHandle
                    /\ sess' = WithEngineState(s, IF t.capture = 0 THEN t.c
                                                  ELSE JS_FreeValue(t.c, JSVal("object", t.capture)))
                    /\ hnd' = IF t.capture = 0 THEN hnd
                              ELSE [hnd EXCEPT ![TheNextHandle] =
                                       [st |-> "dead", context |-> 0, object |-> 0]]
                    /\ last' = [Converted(did, t) EXCEPT !.res = HV("SystemError", 0)]
                    /\ proc' = "returned"
               ELSE /\ t.capture # 0 => HasUnbornHandle
                    /\ sess' = WithEngineState(s, t.c)
                    /\ hnd' = WithCapture(s, t.capture)
                    /\ last' = Converted(did, t)
                    /\ proc' = "returned"

\* object_dealloc: JS_FreeValue(self->context, self->object) when the context
\* field is not NULL, then tp_free.
ObjectDealloc(h) ==
    /\ proc = "running"
    /\ hnd[h].st = "live"
    /\ LET s == hnd[h].context
           did == Did("object_dealloc", s, h)
           gone == [hnd EXCEPT ![h] = [st |-> "dead", context |-> 0, object |-> 0]]
       IN
       IF s = 0
       THEN /\ hnd' = gone
            /\ last' = did
            /\ proc' = "returned" /\ UNCHANGED sess
       ELSE IF sess[s].context # "live"
       THEN \E ub \in UBOutcomes :
            IF ub = "crash"
            THEN /\ proc' = "crashed"
                 /\ last' = [did EXCEPT !.res = HV("crash", 0), !.rel = 1, !.bad = TRUE]
                 /\ UNCHANGED <<sess, hnd>>
            ELSE /\ hnd' = gone
                 /\ last' = [did EXCEPT !.rel = 1, !.bad = TRUE]
                 /\ proc' = "returned" /\ UNCHANGED sess
       ELSE /\ sess' = WithEngineState(s, JS_FreeValue(sess[s].js,
                                                       JSVal("object", hnd[h].object)))
            /\ hnd' = gone
            /\ last' = [did EXCEPT !.rel = 1]
            /\ proc' = "returned"

\* The handler has returned: the host takes the result and runs on.
Return ==
    /\ proc = "returned"
    /\ proc' = "running"
    /\ last' = NoOp
    /\ UNCHANGED <<sess, hnd>>

\* Sessions come and go in any order around their handles; the programs and
\* the argument lists are a few of each kind.
LifecyclePrograms == {Program("fn_id", 0), Program("int", 1), Program("throw", 1)}
LifecycleArgs == {<<>>, <<HV("int", 1)>>, <<HV("str", 1)>>, <<HV("float", 314)>>}

Next ==
    \/ \E s \in Sessions, hostOk, rtOk, ctxOk \in BOOLEAN : ContextNew(s, hostOk, rtOk, ctxOk)
    \/ \E s \in Sessions : ContextDealloc(s)
    \/ \E s \in Sessions, src \in LifecyclePrograms : ContextEval(s, src)
    \/ \E h \in Handles : ObjectNew(h)
    \/ \E h \in Handles, args \in LifecycleArgs : ObjectCall(h, args)
    \/ \E h \in Handles : ObjectDealloc(h)
    \/ Return

Spec == Init /\ [][Next]_vars

\* One session, every program and every argument list up to MaxArgs.
NextBridge ==
    \/ \E hostOk, rtOk, ctxOk \in BOOLEAN : ContextNew(1, hostOk, rtOk, ctxOk)
    \/ ContextDealloc(1)
    \/ \E src \in Programs \cup {NotAString} : ContextEval(1, src)
    \/ \E h \in Handles : ObjectNew(h)
    \/ \E h \in Handles, args \in ArgSeqs : ObjectCall(h, args)
    \/ \E h \in Handles : ObjectDealloc(h)
    \/ Return

SpecBridge == Init /\ [][NextBridge]_vars

\* Several sessions whose programs and functions write and read the global x.
\* The engine allocations of context_new succeed here.
GlobalPrograms ==
    {Program("setx", 2), Program("getx", 0)}
    \cup {Program(k, 0) : k \in GlobalFunctionKinds}
GlobalArgs == {<<>>, <<HV("int", 1)>>}

NextGlobals ==
    \/ \E s \in Sessions, hostOk \in BOOLEAN : ContextNew(s, hostOk, TRUE, TRUE)
    \/ \E s \in Sessions : ContextDealloc(s)
    \/ \E s \in Sessions, src \in GlobalPrograms : ContextEval(s, src)
    \/ \E h \in Handles : ObjectNew(h)
    \/ \E h \in Handles, args \in GlobalArgs : ObjectCall(h, args)
    \/ \E h \in Handles : ObjectDealloc(h)
    \/ Return

SpecGlobals == Init /\ [][NextGlobals]_vars

\* One session whose functions are invoked with integers of every size.
ArgsPrograms == {Program(k, 0) : k \in FunctionKinds}

NextArgs ==
    \/ \E hostOk, rtOk, ctxOk \in BOOLEAN : ContextNew(1, hostOk, rtOk, ctxOk)
    \/ ContextDealloc(1)
    \/ \E src \in ArgsPrograms : ContextEval(1, src)
    \/ \E h \in Handles : ObjectNew(h)
    \/ \E h \in Handles, args \in BigArgSeqs : ObjectCall(h, args)
    \/ \E h \in Handles : ObjectDealloc(h)
    \/ Return

SpecArgs == Init /\ [][NextArgs]_vars

\* quickjs_to_python as a function of the tagged value: the scalar values it
\* is applied to, a string given by its text.
TextIds == {1, 2}
TaggedValues ==
    {JSVal("int", n) : n \in {-1, 0, 1}} \cup {JSVal("float64", 314)}
    \cup {JSVal("bool", b) : b \in {0, 1}}
    \cup {JS_NULL, JS_UNDEFINED, JSVal("uninitialized", 0)}
    \cup {JSVal("string", s) : s \in TextIds}

\* One conversion in the live Context of session s: the engine owns the value
\* (a string is a cell of its heap) and hands it to quickjs_to_python.
ToHost(s, v) ==
    /\ proc = "running"
    /\ sess[s].st = "live" /\ sess[s].context = "live"
    /\ v.tag = "string" => NumFree(sess[s].js) >= 1
    /\ LET a == IF v.tag = "string" THEN JS_NewString(sess[s].js, v.v)
                ELSE [c |-> sess[s].js, val |-> v]
           t == quickjs_to_python(a.c, a.val)
       IN /\ sess' = WithEngineState(s, t.c)
          /\ last' = [Converted(Did("to_host", s, 0), t) EXCEPT !.argv = <<v>>]
    /\ proc' = "returned"
    /\ UNCHANGED hnd

ToHostPrograms == {Program("setx", 1), Program("string", 1), Program("fn_id", 0)}

NextToHost ==
    \/ \E hostOk, rtOk, ctxOk \in BOOLEAN : ContextNew(1, hostOk, rtOk, ctxOk)
    \/ ContextDealloc(1)
    \/ \E src \in ToHostPrograms : ContextEval(1, src)
    \/ \E v \in TaggedValues : ToHost(1, v)
    \/ \E h \in Handles : ObjectDealloc(h)
    \/ Return

SpecToHost == Init /\ [][NextToHost]_vars

\* ------------------------------------------------------------ properties
IsCall == last.op = "object_call"
IsEval == last.op = "context_eval"
\* The last operation ran on a session whose Context is live.
OnLiveContext == last.s # 0 /\ sess[last.s].context = "live"
\* The handles that retain cell i of session s.
Holders(s, i) ==
    {h \in Handles : hnd[h].st = "live" /\ hnd[h].context = s /\ hnd[h].object = i}
\* An argument list with an item that is neither an integer nor a string.
HasForeignArg(args) == \E i \in 1..Len(args) : args[i].type \notin {"int", "str"}
\* An argument list with an item that is no int (bool included) and no str.
HasRejectedArg(args) == \E i \in 1..Len(args) : args[i].type \in {"float", "none", "handle"}
\* The JS value the engine should see for a host argument.
ExpectedJs(item) ==
    IF item.type = "str" THEN JSVal("string", item.v) ELSE JSVal("int", item.v)

\* C1: an invoke on a handle whose session has been destroyed returns None
\* and does not touch the destroyed Context or Runtime: no argument is
\* converted and the engine is not called.
C1_StaleInvokeIsNoOp ==
    (IsCall /\ last.s # 0 /\ sess[last.s].st = "dead")
        => (last.res = Py_None /\ ~last.called /\ last.nconv = 0 /\ ~last.bad)

\* C2: reclaiming a handle releases exactly one JS reference when the owning
\* Context is valid, and releases nothing into a destroyed Context.
C2_ReleaseOnlyIntoValidContext ==
    last.op = "object_dealloc"
        => IF OnLiveContext
           THEN last.rel = 1 /\ ~last.bad
           ELSE last.rel = 0 /\ ~last.bad

\* C3: on a live session every value the engine returned has been consumed
\* exactly once: the reference count of each heap cell equals the number of
\* handles retaining it (a released value is gone, a captured one is held
\* once per handle), no cell is over-released, and no exception stays pending.
C3_ConsumedExactlyOnce ==
    \A s \in Sessions :
        sess[s].context = "live" =>
            /\ sess[s].js.pending = 0
            /\ \A i \in Cells :
                  /\ sess[s].js.heap[i].rc = Cardinality(Holders(s, i))
                  /\ sess[s].js.heap[i].rc = 0 => sess[s].js.heap[i] = FreeCell

\* C3 witness: an invoke returned an object that an earlier handle already
\* retains; both handles hold the cell and its count is two.
C3_Witness ==
    /\ IsCall /\ OnLiveContext /\ last.tag = "object"
    /\ \E i \in Cells :
          /\ Cardinality(Holders(last.s, i)) = 2
          /\ sess[last.s].js.heap[i].rc = 2

\* C4: invoke on a live session calls the function with the n converted
\* arguments in their order, the argument count n, and this bound to null.
C4_CallPassesAllArgs ==
    (IsCall /\ OnLiveContext /\ last.called /\ proc = "returned")
        => /\ last.argc = Len(last.args)
           /\ last.thisv = "null"
           /\ last.argv = [i \in 1..Len(last.args) |-> ExpectedJs(last.args[i])]

\* C5: an argument list holding anything but integers and strings (a float, a
\* boolean, None, an Object) makes invoke raise without calling the function.
C5_OnlyIntAndStrAccepted ==
    (IsCall /\ last.s # 0 /\ HasForeignArg(last.args))
        => (IsRaise(last.res) /\ ~last.called)

\* C6: when the type check rejects an argument at any position, invoke
\* raises having constructed no JS value and made no engine call, and the
\* engine state and the handles are as they were.
C6_AllOrNothing ==
    [][(last'.op = "object_call" /\ last'.s # 0 /\ HasRejectedArg(last'.args))
          => /\ IsRaise(last'.res)
             /\ ~last'.called
             /\ last'.nconv = 0
             /\ sess' = sess
             /\ hnd' = hnd]_vars

\* C6 witness: a rejected item after a valid string, on a live session.
C6_Witness ==
    /\ IsCall /\ OnLiveContext
    /\ Len(last.args) = 2
    /\ last.args[1].type = "str" /\ last.args[2].type = "float"
    /\ IsRaise(last.res)

C8_ConstructionAtomic ==
    \A s \in Sessions :
        sess[s].st = "live" => (sess[s].runtime = "live" /\ sess[s].context = "live")

\* C9: when the engine returns the exception marker, the bridge raises
\* JSException with the text of the pending exception, the exception and its
\* string form have each been released exactly once, and the Context has no
\* pending exception left.
C9_ExceptionTranslated ==
    ((IsCall \/ IsEval) /\ OnLiveContext /\ ~last.bad /\ last.tag = "exception") =>
        /\ last.res.type = "JSException"
        /\ last.res.v \in {1, 2, 3}
        /\ (IsEval /\ last.src.k = "throw") => last.res.v = last.src.v
        /\ sess[last.s].js.pending = 0
        /\ last.exc # 0 /\ last.str # 0 /\ last.exc # last.str
        /\ sess[last.s].js.heap[last.exc] = FreeCell
        /\ sess[last.s].js.heap[last.str] = FreeCell

\* C9 witness: an invoke whose function threw.
C9_Witness ==
    IsCall /\ OnLiveContext /\ last.tag = "exception" /\ last.res = HV("JSException", 1)

\* C10: every handle with a context refers to a session whose Runtime and
\* Context have not been destroyed.
C10_HandleContextAlive ==
    \A h \in Handles :
        (hnd[h].st = "live" /\ hnd[h].context # 0) =>
            /\ sess[hnd[h].context].st = "live"
            /\ sess[hnd[h].context].runtime = "live"
            /\ sess[hnd[h].context].context = "live"

\* The kind of the function a handle retains, in the state before the step.
HeldKind(h) == sess[hnd[h].context].js.heap[hnd[h].object].kind
\* The step is an evaluate or an invoke that wrote the global x of session s.
WroteX(s) ==
    /\ last'.s = s
    /\ \/ last'.op = "context_eval" /\ last'.src.k = "setx"
       \/ /\ last'.op = "object_call" /\ last'.called
          /\ HeldKind(last'.h) = "fn_setx"

\* C11: on a session that lives, the global x keeps its value over every
\* step that does not assign it (no evaluate or invoke resets the Context),
\* and a later evaluate of x and a later invoke of a function returning x
\* both yield the value written.
C11_GlobalsPersist ==
    [][\A s \in Sessions :
          (sess[s].context = "live" /\ sess'[s].context = "live") =>
              /\ ~WroteX(s) => sess'[s].js.x = sess[s].js.x
              /\ (last'.s = s /\ last'.op = "context_eval" /\ last'.src.k = "setx")
                    => sess'[s].js.x = last'.src.v
              /\ (last'.s = s /\ last'.op = "context_eval" /\ last'.src.k = "getx"
                  /\ sess[s].js.x # 0)
                    => last'.res = HV("int", sess[s].js.x)
              /\ (last'.s = s /\ last'.op = "object_call" /\ proc' = "returned"
                  /\ HeldKind(last'.h) = "fn_getx" /\ sess[s].js.x # 0)
                    => last'.res = HV("int", sess[s].js.x)]_vars

\* C11 witness: an invoke returned the 2 that an evaluate had written to x.
C11_Witness ==
    /\ IsCall /\ OnLiveContext /\ last.called
    /\ sess[last.s].js.heap[hnd[last.h].object].kind = "fn_getx"
    /\ last.res = HV("int", 2)

\* C13: an evaluate or invoke on a live session leaves every other session
\* (its runtime, its context, its globals, its heap) and every handle of
\* another session as they were.
C13_SessionsIsolated ==
    [][(last'.op \in {"context_eval", "object_call"} /\ last'.s # 0 /\ ~last'.bad) =>
          /\ \A s \in Sessions : s # last'.s => sess'[s] = sess[s]
          /\ \A h \in Handles :
                (hnd[h].st = "live" /\ hnd[h].context # last'.s) => hnd'[h] = hnd[h]]_vars

\* C13 witness: two live sessions with different values of x, one of them
\* just written by an evaluate.
C13_Witness ==
    /\ MaxSessions >= 2
    /\ sess[1].context = "live" /\ sess[2].context = "live"
    /\ sess[1].js.x = 1 /\ sess[2].js.x = 2
    /\ IsEval /\ last.s = 2 /\ last.src.k = "setx"

\* The host value the conversion table names for a scalar tagged value.
TableValue(v) ==
    CASE v.tag = "int" -> HV("int", v.v)
      [] v.tag = "float64" -> HV("float", v.v)
      [] v.tag = "bool" -> IF v.v = 0 THEN HV("bool", 0) ELSE HV("bool", 1)
      [] v.tag = "string" -> HV("str", v.v)
      [] v.tag \in {"null", "undefined", "uninitialized"} -> Py_None

\* C12: every conversion of a scalar tagged value yields the host value of
\* the table (integer, float, boolean, string, and none for null, undefined
\* and uninitialized), whatever was converted or evaluated before it.
C12_FixedConversion ==
    last.op = "to_host" => (last.tag = last.argv[1].tag /\ last.res = TableValue(last.argv[1]))

\* C12 witness: an uninitialized value converted to none in a Context that
\* had evaluated programs and still retains a function.
C12_Witness ==
    /\ last.op = "to_host" /\ last.argv[1].tag = "uninitialized" /\ last.res = Py_None
    /\ sess[last.s].js.x = 1
    /\ \E h \in Handles : hnd[h].st = "live"

\* The number of str items of an argument list.
NumStr(args) == Cardinality({i \in 1..Len(args) : args[i].type = "str"})

\* C14: when an invoke on a live session has called the engine and returned,
\* with a value or with a raised JS exception, every argument has been
\* converted and released, no transient string is left in the heap and no
\* cell has lost a reference it still needs (none released twice); and the
\* releases precede the conversion of the result: the string form of a
\* thrown exception, allocated during the conversion, takes the cell the
\* first string argument has given back.
C14_ArgsReleasedOnce ==
    [][(/\ last'.op = "object_call" /\ last'.called /\ proc' = "returned"
        /\ last'.s # 0 /\ sess[last'.s].context = "live")
          => LET c == sess'[last'.s].js IN
             /\ last'.nconv = Len(last'.args)
             /\ last'.nfreed = Len(last'.args)
             /\ \A i \in Cells :
                   /\ c.heap[i].kind # "string"
                   /\ c.heap[i].rc =
                        Cardinality({h \in Handles : /\ hnd'[h].st = "live"
                                                     /\ hnd'[h].context = last'.s
                                                     /\ hnd'[h].object = i})
                   /\ c.heap[i].rc = 0 => c.heap[i] = FreeCell
             /\ (last'.tag = "exception" /\ NumStr(last'.args) > 0)
                   => last'.str = NewCell(sess[last'.s].js)]_vars

\* C14 witness: an invoke with two string arguments raised a JS exception and
\* left no string in the heap.
C14_Witness ==
    /\ IsCall /\ OnLiveContext /\ last.called /\ proc = "returned"
    /\ last.tag = "exception" /\ NumStr(last.args) = 2
    /\ \A i \in Cells : sess[last.s].js.heap[i].kind # "string"

\* C15: destroying a session whose Runtime and Context are live releases the
\* Context first and the Runtime second, each once and each while what it
\* needs is still live; an evaluate or invoke, raising or not, releases
\* neither; and what has been released is never released again.
C15_ContextBeforeRuntime ==
    [][/\ (/\ last'.op = "context_dealloc" /\ last'.s # 0
           /\ sess[last'.s].context = "live" /\ sess[last'.s].runtime = "live")
             => /\ last'.freed = <<"context", "runtime">>
                /\ ~last'.bad /\ proc' = "returned"
                /\ sess'[last'.s].context = "freed" /\ sess'[last'.s].runtime = "freed"
       /\ last'.op \in {"context_eval", "object_call"}
             => /\ last'.freed = <<>>
                /\ \A s \in Sessions :
                      /\ sess'[s].st = sess[s].st
                      /\ sess'[s].context = sess[s].context
                      /\ sess'[s].runtime = sess[s].runtime
       /\ \A s \in Sessions :
             /\ sess[s].context = "freed" => sess'[s].context = "freed"
             /\ sess[s].runtime = "freed" => sess'[s].runtime = "freed"
             /\ (last'.op = "context_dealloc" /\ last'.s = s) => sess[s].st = "live"]_vars

\* C15 witness: a session that had evaluated a program (a handle made from it
\* is still there) has been destroyed, Context first.
C15_Witness ==
    /\ last.op = "context_dealloc" /\ last.s # 0 /\ ~last.bad
    /\ last.freed = <<"context", "runtime">>
    /\ sess[last.s].context = "freed" /\ sess[last.s].runtime = "freed"
    /\ \E h \in Handles : hnd[h].st = "live" /\ hnd[h].context = last.s

\* C16 as stated: the JS integer the function is handed for a host integer
\* argument is that integer, and an invoke with an integer outside the int32
\* range of the engine's integer tag does not call the function but raises.
C16_IntegerPreserved ==
    (IsCall /\ OnLiveContext) =>
        /\ \A i \in 1..Len(last.args) :
              (last.called /\ i <= last.argc /\ last.args[i].type \in IntTypes)
                 => (last.args[i].type = "int" /\ last.argv[i] = JSVal("int", last.args[i].v))
        /\ (\E i \in 1..Len(last.args) : last.args[i].type \in {"long", "huge"})
              => (~last.called /\ IsRaise(last.res))

\* C17 as stated: an invoke hands no buffer of a host string to PyMem_Free.
C17_HostBufferUntouched ==
    IsCall => last.hostfreed = 0

====
